---- MODULE Spec2Model ----
(***************************************************************************)
(* Scraping job orchestration and progress tracking of Econo-SEO.          *)
(*                                                                         *)
(* The model follows the backend snippets of the PRD (scraping endpoints,  *)
(* WebsiteScraper, ProgressManager, ConnectionManager), the Celery task of *)
(* the architecture plan, the retry loop of the Archon tech stack note and *)
(* the frontend hooks.  Components that the repository only describes      *)
(* (domain rate limiter, worker pool hand-off) are modelled from the       *)
(* prose and are marked as such where they are defined.                    *)
(***************************************************************************)
EXTENDS Integers, Sequences, FiniteSets, TLC

(***************************************************************************)
(* Bounds of the model.                                                    *)
(***************************************************************************)
MaxJobs == 2
NumWorkers == 2
MaxPages == 2
NumObservers == 1
NumUrls == 1

Urls == 1..NumUrls
Jobs == 1..MaxJobs
Workers == 1..NumWorkers
Observers == 1..NumObservers
NoJob == 0
NoWebsite == 0

(***************************************************************************)
(* Status vocabularies.                                                    *)
(***************************************************************************)
\* website_status enum; "absent" stands for "no row for this url".
WebsiteStatus == {"absent", "pending", "scraping", "completed", "failed"}

\* scraping_jobs.status (TEXT DEFAULT 'pending') and the values written to it.
JobStatus == {"none", "pending", "running", "completed", "failed", "cancelled"}

\* Statuses in which a job is still to be executed or being executed.
NonTerminal == {"pending", "running"}

\* Statuses after which the lifecycle diagram has no outgoing edge.
Terminal == {"completed", "failed", "cancelled"}

VARIABLES
    website,             \* websites.status per url
    jobWebsite,          \* scraping_jobs.website_id per job (NoWebsite: no row)
    jobStatus,           \* scraping_jobs.status per job
    queue,               \* Celery broker queue of task ids (= job ids)
    revoked,             \* task ids revoked through celery_app.control
    assigned,            \* the task each worker process is executing
    scraper,             \* the WebsiteScraper run of each job
    active_jobs,         \* ProgressManager.active_jobs
    active_connections,  \* ConnectionManager.active_connections
    hook,                \* useScrapingProgress state of each observer
    response,            \* outcome of the last initiate_scraping request
    retry,               \* the retry loop over a batch of urls
    limiter,             \* the Domain Rate Limiter and its callers
    pool,                \* the scheduler's registry and the worker pool
    buffer,              \* the broadcaster's event buffer of one observer
    fanout,              \* one job's event stream and what each client received
    sched,               \* the scheduler's tier queues and admission control
    ws                   \* the client's WebSocketService

mainVars == <<website, jobWebsite, jobStatus, queue, revoked, assigned, scraper,
              active_jobs, active_connections, hook, response>>

sideVars == <<retry, limiter, pool, buffer, fanout, sched, ws>>

vars == <<mainVars, sideVars>>

(***************************************************************************)
(* WebsiteScraper.__init__ : counters of one run.                          *)
(***************************************************************************)
NewScraper ==
    [pc |-> "new", total |-> 0, idx |-> 0,
     pages_scraped |-> 0, pages_failed |-> 0, errors |-> <<>>]

\* An entry missing from ProgressManager.active_jobs.
NoEntry ==
    [present |-> FALSE, status |-> "none", progress |-> 0, pages_scraped |-> 0]

\* useState initial value of useScrapingProgress for job id j.
IdleHook(j) ==
    [jobId |-> j, status |-> "idle", progress |-> 0, pagesScraped |-> 0]

\* No request answered yet.
NoResponse == "none"

(***************************************************************************)
(* Progress reported before page idx of total is scraped:                  *)
(* progress = 10 + int((idx / total) * 80).                                *)
(***************************************************************************)
PageProgressReversed(i, total) ==
    10 + (((total - i) * 80) \div total)

PageProgress(i, total) ==
    10 + ((i * 80) \div total)

(***************************************************************************)
(* useScrapingProgress.handleProgress applied to one observer's state.     *)
(* pages_scraped || prev.pagesScraped keeps the previous value on 0.       *)
(***************************************************************************)
handleProgressAnyJob(h, data) ==
    [h EXCEPT !.status = data.status,
              !.progress = data.progress,
              !.pagesScraped = IF data.pages_scraped # 0
                               THEN data.pages_scraped
                               ELSE h.pagesScraped]

handleProgress(h, data) ==
    IF data.job_id = h.jobId
    THEN [h EXCEPT !.status = data.status,
                   !.progress = data.progress,
                   !.pagesScraped = IF data.pages_scraped # 0
                                    THEN data.pages_scraped
                                    ELSE h.pagesScraped]
    ELSE h

(***************************************************************************)
(* ProgressManager.broadcast_progress followed by ConnectionManager        *)
(* .broadcast: the message built from the job's entry is sent to every     *)
(* connection; each connected observer runs its handler on it.             *)
(***************************************************************************)
broadcast_progress(hk, conns, j, entry) ==
    IF ~entry.present
    THEN hk
    ELSE LET data == [job_id |-> j, status |-> entry.status,
                      progress |-> entry.progress,
                      pages_scraped |-> entry.pages_scraped]
         IN [o \in Observers |->
                IF o \in conns THEN handleProgress(hk[o], data) ELSE hk[o]]

\* ProgressManager.start_job
start_job(entry) ==
    [present |-> TRUE, status |-> "started", progress |-> 0, pages_scraped |-> 0]

\* The default of update_progress's optional arguments.
None == -1

\* ProgressManager.update_progress
update_progress(entry, progress, pages) ==
    IF ~entry.present
    THEN entry
    ELSE [entry EXCEPT !.progress = progress,
                       !.status = "processing",
                       !.pages_scraped = IF pages # None THEN pages ELSE @]

\* ProgressManager.complete_job (up to the broadcast)
complete_job(entry, pages) ==
    IF ~entry.present
    THEN entry
    ELSE [entry EXCEPT !.status = "completed",
                       !.progress = 100,
                       !.pages_scraped = pages]

\* ProgressManager.fail_job (up to the broadcast)
fail_job(entry) ==
    IF ~entry.present
    THEN entry
    ELSE [entry EXCEPT !.status = "failed"]

(***************************************************************************)
(* The progress_callback(current, total, message) of a run:                *)
(* update_progress without a page count, then the broadcast.               *)
(***************************************************************************)
ProgressCallback(j, progress) ==
    LET entry == update_progress(active_jobs[j], progress, None)
    IN /\ active_jobs' = [active_jobs EXCEPT ![j] = entry]
       /\ hook' = broadcast_progress(hook, active_connections, j, entry)

\* The jobId option of observer o's useScrapingProgress.
TrackedJob(o) == ((o - 1) % MaxJobs) + 1

(***************************************************************************)
(* Initial state: empty tables, idle workers, every observer mounted on a  *)
(* job id and not yet connected.                                           *)
(***************************************************************************)
MainInit ==
    /\ website = [u \in Urls |-> "absent"]
    /\ jobWebsite = [j \in Jobs |-> NoWebsite]
    /\ jobStatus = [j \in Jobs |-> "none"]
    /\ queue = <<>>
    /\ revoked = {}
    /\ assigned = [w \in Workers |-> NoJob]
    /\ scraper = [j \in Jobs |-> NewScraper]
    /\ active_jobs = [j \in Jobs |-> NoEntry]
    /\ active_connections = {}
    /\ hook = [o \in Observers |-> IdleHook(TrackedJob(o))]
    /\ response = NoResponse

\* uuid4(): an id no job has yet.
FreshIds == {j \in Jobs : jobWebsite[j] = NoWebsite}

\* existing and existing['status'] == 'scraping'
AlreadyScraping(u) == website[u] = "scraping"

(***************************************************************************)
(* initiate_scraping, the 409 branch: the HTTPException is caught by the   *)
(* handler's own except clause and re-raised as a 500; nothing is stored.  *)
(***************************************************************************)
SubmitRejected(u) ==
    /\ AlreadyScraping(u)
    /\ response' = "500"
    /\ UNCHANGED <<sideVars, website, jobWebsite, jobStatus, queue, revoked, assigned,
                   scraper, active_jobs, active_connections, hook>>

(***************************************************************************)
(* initiate_scraping, the normal path: website row created or reset to     *)
(* 'pending', a new job row with a fresh id, the task queued under that id.*)
(***************************************************************************)
SubmitAccepted(u) ==
    /\ ~AlreadyScraping(u)
    /\ FreshIds # {}
    /\ LET j == CHOOSE x \in FreshIds : \A y \in FreshIds : x <= y
       IN /\ website' = [website EXCEPT ![u] = "pending"]
          /\ jobWebsite' = [jobWebsite EXCEPT ![j] = u]
          /\ jobStatus' = [jobStatus EXCEPT ![j] = "pending"]
          /\ queue' = Append(queue, j)
          /\ response' = "started"
    /\ UNCHANGED <<sideVars, revoked, assigned, scraper, active_jobs,
                   active_connections, hook>>

(***************************************************************************)
(* cancel_scraping: revoke(job_id, terminate=True), then the status        *)
(* update; neither looks at the job's current status.                      *)
(***************************************************************************)
CancelStatusKeep(old) == old

CancelStatus(old) == "cancelled"

Cancel(j) ==
    /\ jobWebsite[j] # NoWebsite
    /\ revoked' = revoked \cup {j}
    /\ jobStatus' = [jobStatus EXCEPT ![j] = CancelStatus(jobStatus[j])]
    /\ UNCHANGED <<sideVars, website, jobWebsite, queue, assigned, scraper,
                   active_jobs, active_connections, hook, response>>

(***************************************************************************)
(* Celery: a worker that is handed a task whose id it holds as revoked     *)
(* drops the task instead of running it.                                   *)
(***************************************************************************)
IsRevokedNever(j) == FALSE

IsRevoked(j) == j \in revoked

DiscardRevoked(w) ==
    /\ assigned[w] = NoJob
    /\ queue # <<>>
    /\ IsRevoked(Head(queue))
    /\ queue' = Tail(queue)
    /\ UNCHANGED <<sideVars, website, jobWebsite, jobStatus, revoked, assigned, scraper,
                   active_jobs, active_connections, hook, response>>

(***************************************************************************)
(* A free worker takes the next task and starts it: the task marks the job *)
(* 'running', the website 'scraping', and registers the job with the       *)
(* ProgressManager (start_job broadcasts progress 0).                      *)
(***************************************************************************)
Dispatch(w) ==
    /\ assigned[w] = NoJob
    /\ queue # <<>>
    /\ ~IsRevoked(Head(queue))
    /\ LET j == Head(queue)
           entry == start_job(active_jobs[j])
       IN /\ queue' = Tail(queue)
          /\ assigned' = [assigned EXCEPT ![w] = j]
          /\ jobStatus' = [jobStatus EXCEPT ![j] = "running"]
          /\ website' = [website EXCEPT ![jobWebsite[j]] = "scraping"]
          /\ scraper' = [scraper EXCEPT ![j].pc = "init"]
          /\ active_jobs' = [active_jobs EXCEPT ![j] = entry]
          /\ hook' = broadcast_progress(hook, active_connections, j, entry)
    /\ UNCHANGED <<sideVars, jobWebsite, revoked, active_connections, response>>

(***************************************************************************)
(* WebsiteScraper.scrape_website up to the loop: progress_callback(0),     *)
(* _discover_pages returns the start url plus what it found (its own       *)
(* failures are caught inside it), progress_callback(10).                  *)
(***************************************************************************)
Discover(w, n) ==
    /\ assigned[w] # NoJob
    /\ scraper[assigned[w]].pc = "init"
    /\ LET j == assigned[w]
           e1 == update_progress(active_jobs[j], 0, None)
           h1 == broadcast_progress(hook, active_connections, j, e1)
           e2 == update_progress(e1, 10, None)
       IN /\ active_jobs' = [active_jobs EXCEPT ![j] = e2]
          /\ hook' = broadcast_progress(h1, active_connections, j, e2)
          /\ scraper' = [scraper EXCEPT ![j].pc = "page", ![j].total = n]
    /\ UNCHANGED <<sideVars, website, jobWebsite, jobStatus, queue, revoked, assigned,
                   active_connections, response>>

(***************************************************************************)
(* Top of the per-page loop: the progress for page idx is reported and the *)
(* fetch of the page is started.                                           *)
(***************************************************************************)
StartPage(w) ==
    /\ assigned[w] # NoJob
    /\ scraper[assigned[w]].pc = "page"
    /\ LET j == assigned[w]
           s == scraper[j]
       IN /\ ProgressCallback(j, PageProgress(s.idx, s.total))
          /\ scraper' = [scraper EXCEPT ![j].pc = "fetching"]
    /\ UNCHANGED <<sideVars, website, jobWebsite, jobStatus, queue, revoked, assigned,
                   active_connections, response>>

(***************************************************************************)
(* Where the loop goes after page i of total: a failed page is counted and *)
(* the loop continues with the next page (except ... continue).            *)
(***************************************************************************)
AfterPageAbortOnFailure(i, total, ok) ==
    IF ~ok THEN "raised" ELSE IF i + 1 < total THEN "page" ELSE "final"

AfterPage(i, total, ok) ==
    IF i + 1 < total THEN "page" ELSE "final"

\* What _scrape_page can do: return, raise an error that a later attempt
\* would not meet again (timeout, network, rate limit), or raise one that
\* every attempt meets (404, unparsable).
PageOutcomes == {"ok", "transient", "permanent"}

\* The index of the page the loop turns to after page i.
NextIdxRetry(i, ok) == IF ok THEN i + 1 ELSE i

NextIdx(i, ok) == i + 1

\* The fetch of the current page ends with outcome o.
EndPage(w, o) ==
    /\ assigned[w] # NoJob
    /\ scraper[assigned[w]].pc = "fetching"
    /\ LET j == assigned[w]
           s == scraper[j]
           ok == o = "ok"
       IN scraper' = [scraper EXCEPT
              ![j].pc = AfterPage(s.idx, s.total, ok),
              ![j].idx = NextIdx(s.idx, ok),
              ![j].pages_scraped = IF ok THEN s.pages_scraped + 1 ELSE @,
              ![j].pages_failed = IF ok THEN @ ELSE s.pages_failed + 1,
              ![j].errors = IF ok THEN @
                            ELSE Append(s.errors, [url |-> s.idx, error |-> o])]
    /\ UNCHANGED <<sideVars, website, jobWebsite, jobStatus, queue, revoked, assigned,
                   active_jobs, active_connections, hook, response>>

(***************************************************************************)
(* The crawler cannot be started (async with AsyncWebCrawler raises before *)
(* the first page): control passes to the outer except clause.             *)
(***************************************************************************)
CrawlerFault(w) ==
    /\ assigned[w] # NoJob
    /\ scraper[assigned[w]].pc = "page"
    /\ scraper[assigned[w]].idx = 0
    /\ scraper' = [scraper EXCEPT ![assigned[w]].pc = "raised"]
    /\ UNCHANGED <<sideVars, website, jobWebsite, jobStatus, queue, revoked, assigned,
                   active_jobs, active_connections, hook, response>>

(***************************************************************************)
(* End of a run that got through the loop: progress_callback(100), the     *)
(* result has success = True, the job is marked 'completed' and            *)
(* complete_job broadcasts the final entry.                                *)
(***************************************************************************)
Finish(w) ==
    /\ assigned[w] # NoJob
    /\ scraper[assigned[w]].pc = "final"
    /\ LET j == assigned[w]
           e1 == update_progress(active_jobs[j], 100, None)
           h1 == broadcast_progress(hook, active_connections, j, e1)
           e2 == complete_job(e1, scraper[j].pages_scraped)
       IN /\ active_jobs' = [active_jobs EXCEPT ![j] = e2]
          /\ hook' = broadcast_progress(h1, active_connections, j, e2)
          /\ jobStatus' = [jobStatus EXCEPT ![j] = "completed"]
          /\ website' = [website EXCEPT ![jobWebsite[j]] = "completed"]
          /\ scraper' = [scraper EXCEPT ![j].pc = "returned"]
          /\ assigned' = [assigned EXCEPT ![w] = NoJob]
    /\ UNCHANGED <<sideVars, jobWebsite, queue, revoked, active_connections, response>>

(***************************************************************************)
(* The outer except clause: the result has success = False, the task ends  *)
(* in FAILURE (reported as 'failed') and fail_job broadcasts the entry.    *)
(***************************************************************************)
Fail(w) ==
    /\ assigned[w] # NoJob
    /\ scraper[assigned[w]].pc = "raised"
    /\ LET j == assigned[w]
           entry == fail_job(active_jobs[j])
       IN /\ active_jobs' = [active_jobs EXCEPT ![j] = entry]
          /\ hook' = broadcast_progress(hook, active_connections, j, entry)
          /\ jobStatus' = [jobStatus EXCEPT ![j] = "failed"]
          /\ website' = [website EXCEPT ![jobWebsite[j]] = "failed"]
          /\ scraper' = [scraper EXCEPT ![j].pc = "failed"]
          /\ assigned' = [assigned EXCEPT ![w] = NoJob]
    /\ UNCHANGED <<sideVars, jobWebsite, queue, revoked, active_connections, response>>

(***************************************************************************)
(* revoke(..., terminate=True) reaches the worker that executes the task:  *)
(* its process is killed where it stands and writes nothing more.          *)
(***************************************************************************)
Terminate(w) ==
    /\ assigned[w] # NoJob
    /\ assigned[w] \in revoked
    /\ assigned' = [assigned EXCEPT ![w] = NoJob]
    /\ UNCHANGED <<sideVars, website, jobWebsite, jobStatus, queue, revoked, scraper,
                   active_jobs, active_connections, hook, response>>

\* complete_job / fail_job, after the sleep: del self.active_jobs[job_id]
PurgeJob(j) ==
    /\ active_jobs[j].present
    /\ active_jobs[j].status \in {"completed", "failed"}
    /\ active_jobs' = [active_jobs EXCEPT ![j] = NoEntry]
    /\ UNCHANGED <<sideVars, website, jobWebsite, jobStatus, queue, revoked, assigned,
                   scraper, active_connections, hook, response>>

\* ConnectionManager.connect
Connect(o) ==
    /\ o \notin active_connections
    /\ active_connections' = active_connections \cup {o}
    /\ UNCHANGED <<sideVars, website, jobWebsite, jobStatus, queue, revoked, assigned,
                   scraper, active_jobs, hook, response>>

\* ConnectionManager.disconnect
Disconnect(o) ==
    /\ o \in active_connections
    /\ active_connections' = active_connections \ {o}
    /\ UNCHANGED <<sideVars, website, jobWebsite, jobStatus, queue, revoked, assigned,
                   scraper, active_jobs, hook, response>>

WorkerStep(w) ==
    \/ DiscardRevoked(w)
    \/ Dispatch(w)
    \/ \E n \in 1..MaxPages : Discover(w, n)
    \/ StartPage(w)
    \/ \E o \in PageOutcomes : EndPage(w, o)
    \/ CrawlerFault(w)
    \/ Finish(w)
    \/ Fail(w)
    \/ Terminate(w)

Next ==
    \/ \E u \in Urls : SubmitRejected(u)
    \/ \E u \in Urls : SubmitAccepted(u)
    \/ \E j \in Jobs : Cancel(j)
    \/ \E w \in Workers : WorkerStep(w)
    \/ \E j \in Jobs : PurgeJob(j)
    \/ \E o \in Observers : Connect(o)
    \/ \E o \in Observers : Disconnect(o)

(***************************************************************************)
(* The retry loop around one page fetch, run over a batch of urls:         *)
(*                                                                         *)
(*   for attempt in range(retry_count):                                    *)
(*       try:                                                              *)
(*           result = await crawler.arun(url=url, config=crawl_config)     *)
(*           if result.success: return result                              *)
(*       except Exception as e:                                            *)
(*           if attempt < retry_count - 1:                                 *)
(*               await asyncio.sleep(2 ** attempt)                         *)
(*                                                                         *)
(* retry.outcome[u] is what the loop hands back for url u: "result", an    *)
(* error kind if the loop raised it, or "None" when the loop ran out.      *)
(***************************************************************************)
RetryCount == 3
BatchSize == 2

BatchUrls == 1..BatchSize
ErrorKinds == {"timeout", "network"}
FetchOutcomes == {"ok", "unsuccessful"} \cup ErrorKinds

RetryInit ==
    retry = [pc |-> "try", url |-> 1, attempt |-> 0, slept |-> 0,
             calls |-> [u \in BatchUrls |-> 0],
             last_error |-> [u \in BatchUrls |-> "none"],
             outcome |-> [u \in BatchUrls |-> "pending"]]

RECURSIVE Pow2(_)
Pow2(n) == IF n = 0 THEN 1 ELSE 2 * Pow2(n - 1)

\* What the loop hands back when range(retry_count) is used up.
ExhaustedOutcome(last) == "None"

\* The loop for the current url is left with outcome out; the batch goes on.
RetryLeave(r, out) ==
    [r EXCEPT !.outcome[r.url] = out,
              !.url = r.url + 1,
              !.attempt = 0,
              !.pc = IF r.url + 1 > BatchSize THEN "done" ELSE "try"]

\* One pass through the try block: crawler.arun answers with o.
RetryAttempt(o) ==
    /\ retry.pc = "try"
    /\ LET u == retry.url
           r1 == [retry EXCEPT !.calls[u] = @ + 1,
                               !.last_error[u] = IF o \in ErrorKinds THEN o ELSE @]
           last == retry.attempt = RetryCount - 1
       IN retry' =
            IF o = "ok"
            THEN RetryLeave(r1, "result")
            ELSE IF last
            THEN RetryLeave(r1, ExhaustedOutcome(r1.last_error[u]))
            ELSE IF o \in ErrorKinds
            THEN [r1 EXCEPT !.pc = "backoff"]
            ELSE [r1 EXCEPT !.attempt = @ + 1]
    /\ UNCHANGED <<mainVars, limiter, pool, buffer, fanout, sched, ws>>

\* await asyncio.sleep(2 ** attempt), then the next iteration.
RetryBackoff ==
    /\ retry.pc = "backoff"
    /\ retry' = [retry EXCEPT !.slept = Pow2(retry.attempt),
                              !.attempt = @ + 1,
                              !.pc = "try"]
    /\ UNCHANGED <<mainVars, limiter, pool, buffer, fanout, sched, ws>>

RetryNext ==
    \/ \E o \in FetchOutcomes : RetryAttempt(o)
    \/ RetryBackoff

(***************************************************************************)
(* The Domain Rate Limiter.  The repository gives its table of rates       *)
(* (Domain-Based Throttling) and no implementation; the limiter below      *)
(* follows the description: one last_request_timestamp per domain, shared  *)
(* by all workers, and a worker waits until the domain's spacing has       *)
(* passed since that timestamp.  Time is counted in half seconds.          *)
(***************************************************************************)
MaxTime == 5
NumCallers == 2
MaxTighten == 1

Callers == 1..NumCallers
Domains == {"default", "shopify.com", "wordpress.com"}
NoDomain == "none"

\* rate_limits: 1 request per 2 s, 1 request per 1 s, 2 requests per second.
rate_limits ==
    [d \in Domains |->
        CASE d = "default" -> 4
          [] d = "shopify.com" -> 2
          [] d = "wordpress.com" -> 1]

LimiterInit ==
    limiter = [now |-> 0,
               last |-> [d \in Domains |-> None],
               prev |-> [d \in Domains |-> None],
               spacing |-> rate_limits,
               waiting |-> [w \in Callers |-> NoDomain]]

\* The clock advances.
LimiterTick ==
    /\ limiter.now < MaxTime
    /\ limiter' = [limiter EXCEPT !.now = @ + 1]
    /\ UNCHANGED <<mainVars, retry, pool, buffer, fanout, sched, ws>>

\* Worker w asks for permission to fetch from domain d and waits.
LimiterRequest(w, d) ==
    /\ limiter.waiting[w] = NoDomain
    /\ limiter' = [limiter EXCEPT !.waiting[w] = d]
    /\ UNCHANGED <<mainVars, retry, pool, buffer, fanout, sched, ws>>

\* The domain's spacing has passed since its last granted request.
PermittedAlways(d) == TRUE

Permitted(d) ==
    \/ limiter.last[d] = None
    \/ limiter.now - limiter.last[d] >= limiter.spacing[d]

\* The limiter lets waiting worker w go and stamps the domain.
LimiterGrant(w) ==
    /\ limiter.waiting[w] # NoDomain
    /\ LET d == limiter.waiting[w]
       IN /\ Permitted(d)
          /\ limiter' = [limiter EXCEPT !.prev[d] = limiter.last[d],
                                        !.last[d] = limiter.now,
                                        !.waiting[w] = NoDomain]
    /\ UNCHANGED <<mainVars, retry, pool, buffer, fanout, sched, ws>>

\* A RateLimitError on domain d tightens the spacing of its next requests.
LimiterTighten(d) ==
    /\ limiter.last[d] # None
    /\ limiter.spacing[d] < rate_limits[d] + MaxTighten
    /\ limiter' = [limiter EXCEPT !.spacing[d] = @ + 1]
    /\ UNCHANGED <<mainVars, retry, pool, buffer, fanout, sched, ws>>

LimiterNext ==
    \/ LimiterTick
    \/ \E w \in Callers, d \in Domains : LimiterRequest(w, d)
    \/ \E w \in Callers : LimiterGrant(w)
    \/ \E d \in Domains : LimiterTighten(d)

(***************************************************************************)
(* The scheduler's registry and the worker pool.  The repository gives the *)
(* lifecycle diagram, the queue architecture and the recycling and scaling *)
(* notes and no implementation; the hand-off below follows the             *)
(* description: jobs are queued, a free worker is handed the head of the   *)
(* queue, a job-level fault sends the job through retry_queued once, and a *)
(* worker that has completed max_jobs_per_worker jobs is replaced.         *)
(***************************************************************************)
NumPoolJobs == 3
NumSlots == 2
max_jobs_per_worker == 1
min_workers == 1
ScaleUpDepth == 1
MaxWorkerId == 6

\* The pool has a slot for each worker it may hold at most.
max_workers == NumSlots

PoolJobs == 1..NumPoolJobs
Slots == 1..NumSlots

PoolStatus == {"none", "pending", "queued", "running", "retry_queued",
               "completed", "failed", "cancelled"}

\* A fresh worker instance with identity id.
NewWorker(id) == [id |-> id, jobs_processed |-> 0, assigned_job_id |-> NoJob]

\* A slot that holds no worker.
NoWorker == NewWorker(0)

\* The slots that hold a worker.
Alive(p) == {s \in Slots : p.workers[s] # NoWorker}

PoolInit ==
    pool = [status |-> [j \in PoolJobs |-> "none"],
            queue |-> <<>>,
            faults |-> [j \in PoolJobs |-> 0],
            cancel_flag |-> [j \in PoolJobs |-> FALSE],
            workers |-> [s \in Slots |-> IF s <= min_workers
                                         THEN NewWorker(s) ELSE NoWorker],
            next_id |-> min_workers + 1,
            done_by |-> <<>>]

\* The queue without job j.
RECURSIVE Without(_, _)
Without(q, j) ==
    IF q = <<>> THEN <<>>
    ELSE IF Head(q) = j THEN Without(Tail(q), j)
    ELSE <<Head(q)>> \o Without(Tail(q), j)

\* Submit: the job is created as pending.
PoolSubmit(j) ==
    /\ pool.status[j] = "none"
    /\ pool' = [pool EXCEPT !.status[j] = "pending"]
    /\ UNCHANGED <<mainVars, retry, limiter, buffer, fanout, sched, ws>>

\* The scheduler puts a pending job on the queue.
PoolEnqueue(j) ==
    /\ pool.status[j] = "pending"
    /\ pool' = [pool EXCEPT !.status[j] = "queued",
                            !.queue = Append(@, j)]
    /\ UNCHANGED <<mainVars, retry, limiter, buffer, fanout, sched, ws>>

\* Dispatch: a free slot is handed the job popped from the queue.
PoolDispatch(s) ==
    /\ s \in Alive(pool)
    /\ pool.workers[s].assigned_job_id = NoJob
    /\ pool.queue # <<>>
    /\ LET j == Head(pool.queue)
       IN pool' = [pool EXCEPT !.queue = Tail(@),
                               !.status[j] = "running",
                               !.workers[s].assigned_job_id = j]
    /\ UNCHANGED <<mainVars, retry, limiter, buffer, fanout, sched, ws>>

\* The worker after a finished job: replaced when it has done its share.
AfterJobNoRecycle(wk, next) ==
    [wk EXCEPT !.jobs_processed = @ + 1, !.assigned_job_id = NoJob]

AfterJob(wk, next) ==
    IF wk.jobs_processed + 1 >= max_jobs_per_worker
    THEN NewWorker(next)
    ELSE [wk EXCEPT !.jobs_processed = @ + 1, !.assigned_job_id = NoJob]

\* The worker gets to the end of its job, which is completed or failed.
PoolComplete(s, st) ==
    /\ pool.workers[s].assigned_job_id # NoJob
    /\ LET j == pool.workers[s].assigned_job_id
           wk == AfterJob(pool.workers[s], pool.next_id)
       IN pool' = [pool EXCEPT !.status[j] = st,
                               !.done_by = Append(@, pool.workers[s].id),
                               !.workers[s] = wk,
                               !.next_id = IF wk.id = pool.next_id
                                           THEN @ + 1 ELSE @]
    /\ UNCHANGED <<mainVars, retry, limiter, buffer, fanout, sched, ws>>

\* What a job-level fault does to the worker's registry entry.
KeepOnFault(wk) == wk

ReleaseOnFault(wk) == [wk EXCEPT !.assigned_job_id = NoJob]

\* Where a job-level fault takes a job that had n such faults before.
FaultStatusAlwaysRetry(n) == "retry_queued"

FaultStatus(n) == IF n = 0 THEN "retry_queued" ELSE "failed"

\* A job-level fault: retry_queued the first time, failed if it recurs.
PoolFault(s) ==
    /\ pool.workers[s].assigned_job_id # NoJob
    /\ LET j == pool.workers[s].assigned_job_id
       IN pool' = [pool EXCEPT
              !.status[j] = FaultStatus(pool.faults[j]),
              !.faults[j] = @ + 1,
              !.workers[s] = ReleaseOnFault(@)]
    /\ UNCHANGED <<mainVars, retry, limiter, buffer, fanout, sched, ws>>

\* A retry_queued job goes back on the queue.
PoolRequeue(j) ==
    /\ pool.status[j] = "retry_queued"
    /\ pool' = [pool EXCEPT !.status[j] = "queued",
                            !.queue = Append(@, j)]
    /\ UNCHANGED <<mainVars, retry, limiter, buffer, fanout, sched, ws>>

\* Cancel: a waiting job is cancelled at once, a running one is flagged.
PoolCancel(j) ==
    /\ pool.status[j] \in {"pending", "queued", "retry_queued", "running"}
    /\ pool' = IF pool.status[j] = "running"
               THEN [pool EXCEPT !.cancel_flag[j] = TRUE]
               ELSE [pool EXCEPT !.status[j] = "cancelled",
                                 !.queue = Without(@, j)]
    /\ UNCHANGED <<mainVars, retry, limiter, buffer, fanout, sched, ws>>

\* The worker sees the flag at a URL boundary, stops and reports cancelled.
PoolStop(s) ==
    /\ pool.workers[s].assigned_job_id # NoJob
    /\ pool.cancel_flag[pool.workers[s].assigned_job_id]
    /\ LET j == pool.workers[s].assigned_job_id
       IN pool' = [pool EXCEPT !.status[j] = "cancelled",
                               !.workers[s].assigned_job_id = NoJob]
    /\ UNCHANGED <<mainVars, retry, limiter, buffer, fanout, sched, ws>>

\* Scale up: the queue is deeper than the threshold and a slot is free.
PoolScaleUp(s) ==
    /\ s \notin Alive(pool)
    /\ \A t \in Slots \ Alive(pool) : s <= t
    /\ Len(pool.queue) > ScaleUpDepth
    /\ pool.next_id <= MaxWorkerId
    /\ pool' = [pool EXCEPT !.workers[s] = NewWorker(pool.next_id),
                            !.next_id = @ + 1]
    /\ UNCHANGED <<mainVars, retry, limiter, buffer, fanout, sched, ws>>

\* Whether a pool of n workers may give one up.
MayScaleDownAlways(n) == TRUE

MayScaleDown(n) == n > min_workers

\* Scale down: nothing is queued and the worker is idle.
PoolScaleDown(s) ==
    /\ s \in Alive(pool)
    /\ pool.workers[s].assigned_job_id = NoJob
    /\ pool.queue = <<>>
    /\ MayScaleDown(Cardinality(Alive(pool)))
    /\ pool' = [pool EXCEPT !.workers[s] = NoWorker]
    /\ UNCHANGED <<mainVars, retry, limiter, buffer, fanout, sched, ws>>

PoolNext ==
    \/ \E j \in PoolJobs : PoolSubmit(j)
    \/ \E j \in PoolJobs : PoolEnqueue(j)
    \/ \E s \in Slots : PoolDispatch(s)
    \/ \E s \in Slots, st \in {"completed", "failed"} : PoolComplete(s, st)
    \/ \E s \in Slots : PoolFault(s)
    \/ \E j \in PoolJobs : PoolRequeue(j)
    \/ \E j \in PoolJobs : PoolCancel(j)
    \/ \E s \in Slots : PoolStop(s)
    \/ \E s \in Slots : PoolScaleUp(s)
    \/ \E s \in Slots : PoolScaleDown(s)

(***************************************************************************)
(* Specifications.                                                         *)
(***************************************************************************)
(***************************************************************************)
(* The broadcaster's event buffer of one observer.  The repository sends   *)
(* every message straight to the socket and has no buffer; the buffer      *)
(* below follows the description: bounded capacity, on overflow the oldest *)
(* intermediate progress event is dropped, a terminal event is always      *)
(* admitted, beyond the capacity if nothing can be dropped.                *)
(***************************************************************************)
BufferCap == 2
NumBufferJobs == 3
MaxEvents == 5

BufferJobs == 1..NumBufferJobs

BufferInit ==
    buffer = [queue |-> <<>>, emitted |-> 0, delivered |-> 0, done |-> {}]

\* Positions of the intermediate progress events in q.
Intermediate(q) == {i \in 1..Len(q) : q[i].kind = "progress"}

\* q without the event at position i.
RemoveAt(q, i) == SubSeq(q, 1, i - 1) \o SubSeq(q, i + 1, Len(q))

\* The buffer after event e is offered to it.
EnqueueDropHead(q, e) ==
    IF Len(q) < BufferCap THEN Append(q, e) ELSE Append(Tail(q), e)

Enqueue(q, e) ==
    IF Len(q) < BufferCap
    THEN Append(q, e)
    ELSE IF Intermediate(q) # {}
    THEN LET i == CHOOSE x \in Intermediate(q) :
                      \A y \in Intermediate(q) : x <= y
         IN Append(RemoveAt(q, i), e)
    ELSE IF e.kind = "terminal" THEN Append(q, e)
    ELSE q

\* The broadcaster offers the next event of job j to the observer's buffer.
BufferEmit(j, kind) ==
    /\ j \notin buffer.done
    /\ buffer.emitted < MaxEvents
    /\ LET e == [seq |-> buffer.emitted + 1, job |-> j, kind |-> kind]
       IN buffer' = [buffer EXCEPT
              !.queue = Enqueue(@, e),
              !.emitted = @ + 1,
              !.done = IF kind = "terminal" THEN @ \cup {j} ELSE @]
    /\ UNCHANGED <<mainVars, retry, limiter, pool, fanout, sched, ws>>

\* The event at the head of the buffer is sent to the observer.
BufferDeliver ==
    /\ buffer.queue # <<>>
    /\ buffer' = [buffer EXCEPT !.queue = Tail(@), !.delivered = @ + 1]
    /\ UNCHANGED <<mainVars, retry, limiter, pool, fanout, sched, ws>>

BufferNext ==
    \/ \E j \in BufferJobs, kind \in {"progress", "terminal"} : BufferEmit(j, kind)
    \/ BufferDeliver

(***************************************************************************)
(* One job's events and what every client receives of them: the            *)
(* ProgressManager builds one message per event from the job's entry and   *)
(* ConnectionManager.broadcast sends that message to every connection.     *)
(* Each received message is logged with its position n in the job's        *)
(* stream of events.                                                       *)
(***************************************************************************)
NumClients == 2

Clients == 1..NumClients
FanJob == 1
ProgressSteps == {0, 10, 50, 100}

FanoutInit ==
    fanout = [entry |-> NoEntry, finished |-> FALSE, n |-> 0,
              conns |-> {},
              log |-> [c \in Clients |-> <<>>]]

\* The message broadcast_progress builds from the job's entry.
ProgressMessage(j, entry) ==
    [job_id |-> j, status |-> entry.status, progress |-> entry.progress,
     pages_scraped |-> entry.pages_scraped]

\* connection.send_text(message) as seen by client c.
DeliverPrepend(c, log, m) == IF c = 1 THEN <<m>> \o log ELSE Append(log, m)

Deliver(c, log, m) == Append(log, m)

\* broadcast_progress and manager.broadcast for the job's entry.
FanBroadcast(f, entry) ==
    IF ~entry.present
    THEN [f EXCEPT !.entry = entry]
    ELSE LET m == [n |-> f.n + 1, data |-> ProgressMessage(FanJob, entry)]
         IN [f EXCEPT !.entry = entry,
                      !.n = @ + 1,
                      !.log = [c \in Clients |->
                                  IF c \in f.conns THEN Deliver(c, f.log[c], m)
                                  ELSE f.log[c]]]

\* A client connects to /ws/{client_id}.
FanConnect(c) ==
    /\ c \notin fanout.conns
    /\ fanout' = [fanout EXCEPT !.conns = @ \cup {c}]
    /\ UNCHANGED <<mainVars, retry, limiter, pool, buffer, sched, ws>>

\* A client's socket is closed.
FanDisconnect(c) ==
    /\ c \in fanout.conns
    /\ fanout' = [fanout EXCEPT !.conns = @ \ {c}]
    /\ UNCHANGED <<mainVars, retry, limiter, pool, buffer, sched, ws>>

\* start_job
FanStart ==
    /\ ~fanout.entry.present
    /\ ~fanout.finished
    /\ fanout' = FanBroadcast(fanout, start_job(fanout.entry))
    /\ UNCHANGED <<mainVars, retry, limiter, pool, buffer, sched, ws>>

\* update_progress with the next progress value p of the run.
FanProgress(p) ==
    /\ fanout.entry.present
    /\ ~fanout.finished
    /\ fanout.entry.status = "started" \/ p > fanout.entry.progress
    /\ fanout' = FanBroadcast(fanout, update_progress(fanout.entry, p, None))
    /\ UNCHANGED <<mainVars, retry, limiter, pool, buffer, sched, ws>>

\* complete_job
FanComplete(pages) ==
    /\ fanout.entry.present
    /\ ~fanout.finished
    /\ fanout.entry.progress = 100
    /\ fanout' = [FanBroadcast(fanout, complete_job(fanout.entry, pages))
                    EXCEPT !.finished = TRUE]
    /\ UNCHANGED <<mainVars, retry, limiter, pool, buffer, sched, ws>>

\* fail_job
FanFail ==
    /\ fanout.entry.present
    /\ ~fanout.finished
    /\ fanout' = [FanBroadcast(fanout, fail_job(fanout.entry))
                    EXCEPT !.finished = TRUE]
    /\ UNCHANGED <<mainVars, retry, limiter, pool, buffer, sched, ws>>

FanoutNext ==
    \/ \E c \in Clients : FanConnect(c)
    \/ \E c \in Clients : FanDisconnect(c)
    \/ FanStart
    \/ \E p \in ProgressSteps : FanProgress(p)
    \/ \E pages \in 1..MaxPages : FanComplete(pages)
    \/ FanFail

(***************************************************************************)
(* The Priority Scheduler: one FIFO queue per tier, dispatch of the queued *)
(* job with the highest effective priority (tier rank plus aging boost),   *)
(* admission control.  The repository gives the queue architecture, the    *)
(* circuit breakers and a priority formula without aging, and no           *)
(* scheduler; the model follows the description.  A job's state change to  *)
(* running at dispatch is the first event its observers get.  Jobs are     *)
(* told apart by their place in the queues; one job at a time carries a    *)
(* mark by which it is followed from its submission to its end; response   *)
(* is the answer of a Submit that has just been made.                      *)
(***************************************************************************)
NumSchedJobs == 4
NumSchedWorkers == 1
OverloadThreshold == 2

Tiers == {"free", "starter", "pro", "enterprise"}

\* Queue architecture: Enterprise (P0) first, Free (P3) last.
TierRank ==
    [t \in Tiers |->
        CASE t = "free" -> 0
          [] t = "starter" -> 1
          [] t = "pro" -> 2
          [] t = "enterprise" -> 3]

\* The marked job has not come to its end.
NotDone == "none"

SchedInit ==
    sched = [queues |-> [t \in Tiers |-> <<>>],
             running |-> <<>>,
             marked_done |-> NotDone,
             disabled |-> {},
             response |-> "none"]

\* Global queue depth.
RECURSIVE SumLen(_, _)
SumLen(qs, ts) ==
    IF ts = {} THEN 0
    ELSE LET t == CHOOSE x \in ts : TRUE
         IN Len(qs[t]) + SumLen(qs, ts \ {t})

QueueDepth(sc) == SumLen(sc.queues, Tiers)

Saturated(sc) == Len(sc.running) >= NumSchedWorkers

\* Some job in the queues or in the pool carries the mark.
Marked(sc) ==
    \/ \E t \in Tiers : \E i \in 1..Len(sc.queues[t]) : sc.queues[t][i].mark
    \/ \E i \in 1..Len(sc.running) : sc.running[i].mark

\* Admission control of Submit.
AdmitAlways(sc, t) == "accepted"

Admit(sc, t) ==
    IF QueueDepth(sc) > OverloadThreshold THEN "OverloadError"
    ELSE IF t \in sc.disabled THEN "TierDisabled"
    ELSE "accepted"

\* Submit of a new job in tier t: enqueued in its tier's queue or rejected.
\* held records that the job has waited while every worker was busy.
SchedSubmit(t, mk) ==
    /\ QueueDepth(sched) + Len(sched.running) < NumSchedJobs
    /\ mk => ~Marked(sched)
    /\ LET r == Admit(sched, t)
       IN sched' =
            IF r = "accepted"
            THEN [sched EXCEPT
                    !.queues[t] = Append(@, [tier |-> t, wait |-> 0,
                                             held |-> Saturated(sched),
                                             mark |-> mk]),
                    !.marked_done = IF mk THEN NotDone ELSE @,
                    !.response = r]
            ELSE [sched EXCEPT !.response = r]
    /\ UNCHANGED <<mainVars, retry, limiter, pool, buffer, fanout, ws>>

\* Effective priority of a queued job: tier rank plus aging boost.
EffectiveNoAging(job) == TierRank[job.tier]

Effective(job) == TierRank[job.tier] + job.wait

\* The non-empty tier whose head is dispatched next.
PickLowest(sc) ==
    CHOOSE t \in Tiers :
        /\ sc.queues[t] # <<>>
        /\ \A u \in Tiers \ {t} :
              sc.queues[u] # <<>> => TierRank[t] < TierRank[u]

Pick(sc) ==
    CHOOSE t \in Tiers :
        /\ sc.queues[t] # <<>>
        /\ \A u \in Tiers \ {t} :
              sc.queues[u] # <<>> =>
                 LET a == Effective(Head(sc.queues[t]))
                     b == Effective(Head(sc.queues[u]))
                 IN a > b \/ (a = b /\ TierRank[t] > TierRank[u])

\* The jobs left behind by a dispatch age.
Aged(q, full) ==
    [i \in 1..Len(q) |-> [q[i] EXCEPT !.wait = @ + 1, !.held = @ \/ full]]

\* Dispatch: a slot is free, the best queued job is marked running and
\* handed to the pool.
SchedDispatch ==
    /\ ~Saturated(sched)
    /\ QueueDepth(sched) > 0
    /\ LET t == Pick(sched)
           job == Head(sched.queues[t])
           full == Len(sched.running) + 1 >= NumSchedWorkers
       IN sched' = [sched EXCEPT
              !.queues = [u \in Tiers |->
                            IF u = t THEN Aged(Tail(@[u]), full)
                            ELSE Aged(@[u], full)],
              !.running = Append(@, [job EXCEPT !.wait = 0]),
              !.response = "none"]
    /\ UNCHANGED <<mainVars, retry, limiter, pool, buffer, fanout, ws>>

\* The i-th running job reaches a terminal state and frees its slot.
SchedComplete(i) ==
    /\ i \in 1..Len(sched.running)
    /\ sched' = [sched EXCEPT
           !.running = SubSeq(@, 1, i - 1) \o SubSeq(@, i + 1, Len(@)),
           !.marked_done = IF sched.running[i].mark
                           THEN sched.running[i].tier ELSE @,
           !.response = "none"]
    /\ UNCHANGED <<mainVars, retry, limiter, pool, buffer, fanout, ws>>

\* The lowest tier that is not disabled.
LowestActive(sc) ==
    CHOOSE t \in Tiers \ sc.disabled :
        \A u \in Tiers \ sc.disabled : TierRank[t] <= TierRank[u]

\* Under overload the lowest active tier is closed to new submissions.
SchedDisableTier ==
    /\ QueueDepth(sched) > OverloadThreshold
    /\ sched.disabled = {}
    /\ sched' = [sched EXCEPT !.disabled = @ \cup {LowestActive(sched)},
                             !.response = "none"]
    /\ UNCHANGED <<mainVars, retry, limiter, pool, buffer, fanout, ws>>

\* The overload is over: the tiers are open again.
SchedEnableTiers ==
    /\ QueueDepth(sched) <= OverloadThreshold
    /\ sched.disabled # {}
    /\ sched' = [sched EXCEPT !.disabled = {}, !.response = "none"]
    /\ UNCHANGED <<mainVars, retry, limiter, pool, buffer, fanout, ws>>

SchedNext ==
    \/ \E t \in Tiers, mk \in BOOLEAN : SchedSubmit(t, mk)
    \/ SchedDispatch
    \/ \E i \in 1..NumSchedWorkers : SchedComplete(i)
    \/ SchedDisableTier
    \/ SchedEnableTiers

(***************************************************************************)
(* The client's WebSocketService (websocket.ts) and the components that    *)
(* use it through useScrapingProgress.  ws.socket is this.socket (NoSocket *)
(* for null); ws.sockets holds the state of every Socket object created by *)
(* io(): a socket that is not connected keeps trying to connect by itself  *)
(* until it has used up its reconnection attempts or is closed.  Of a      *)
(* socket, direct are the callbacks on() registered on it for a server     *)
(* event (the server sends no other event), rooms the job rooms its        *)
(* connection is in on the server, and wanted the jobs joined and not left *)
(* through it.  "scraping_progress" stands for the six server events of    *)
(* setupEventHandlers, which are all handled alike.                        *)
(***************************************************************************)
MaxSockets == 2
MaxErrors == 7
NumComponents == 2
NumWsJobs == 1

maxReconnectAttempts == 5
initialReconnectDelay == 1000
reconnectionDelayMax == 10000

SocketIds == 1..MaxSockets
NoSocket == 0
Components == 1..NumComponents
WsJobs == 1..NumWsJobs
WsEvents == {"scraping_progress", "ws_connected", "ws_disconnected"}

NewSocket ==
    [state |-> "unused", tries |-> 0,
     direct |-> {}, rooms |-> {}, wanted |-> {}]

\* A socket after socket.disconnect() or after it has given up.
ClosedSocket == [NewSocket EXCEPT !.state = "closed"]

\* The jobId option of component c's useScrapingProgress.
JobOf(c) == ((c - 1) % NumWsJobs) + 1

NoCalls == [c \in Components |-> 0]

\* The last step called nothing that is recorded.
NoCall == [op |-> "none", sent |-> FALSE, calls |-> NoCalls]

\* The last step called op, which sent a message to the server or not.
Called(op, sent) == [op |-> op, sent |-> sent, calls |-> NoCalls]

WsInit ==
    ws = [socket |-> NoSocket,
          sockets |-> [k \in SocketIds |-> NewSocket],
          reconnectAttempts |-> 0,
          reconnectDelay |-> initialReconnectDelay,
          isConnecting |-> FALSE,
          listeners |-> [e \in WsEvents |-> {}],
          comp |-> [c \in Components |->
                       [mounted |-> FALSE, isConnected |-> FALSE]],
          last |-> NoCall]

\* this.socket?.connected
SocketConnected(x) ==
    x.socket # NoSocket /\ x.sockets[x.socket].state = "connected"

\* Socket objects that io() can hand out: never used, or closed and no
\* longer referenced.
FreeSockets(x) ==
    {k \in SocketIds :
        \/ x.sockets[k].state = "unused"
        \/ x.sockets[k].state = "closed" /\ x.socket # k}

\* The guard of connect(): it returns at once when connected or connecting.
ConnectReturns(x) == SocketConnected(x) \/ x.isConnecting

\* connect(): creates a socket, which starts to connect, unless it returns
\* at once.
connect(x) ==
    IF ConnectReturns(x) \/ FreeSockets(x) = {}
    THEN x
    ELSE LET k == CHOOSE a \in FreeSockets(x) : \A b \in FreeSockets(x) : a <= b
         IN [x EXCEPT !.isConnecting = TRUE,
                      !.socket = k,
                      !.sockets[k] = [NewSocket EXCEPT !.state = "connecting"]]

\* disconnect(): closes this.socket, forgets it and clears the listeners;
\* a connected socket fires its 'disconnect' handler on the way.
disconnect(x) ==
    IF x.socket = NoSocket
    THEN x
    ELSE [x EXCEPT !.sockets[x.socket] = ClosedSocket,
                   !.isConnecting = IF SocketConnected(x) THEN FALSE ELSE @,
                   !.socket = NoSocket,
                   !.listeners = [e \in WsEvents |-> {}]]

\* The guard of joinScrapingJob, leaveScrapingJob and emit.
MaySendAnySocket(x) == x.socket # NoSocket

MaySend(x) == SocketConnected(x)

\* joinScrapingJob(jobId)
joinScrapingJob(x, j) ==
    IF ~MaySend(x)
    THEN x
    ELSE [x EXCEPT !.sockets[x.socket].rooms = @ \cup {j},
                   !.sockets[x.socket].wanted = @ \cup {j}]

\* leaveScrapingJob(jobId)
leaveScrapingJob(x, j) ==
    IF ~MaySend(x)
    THEN x
    ELSE [x EXCEPT !.sockets[x.socket].rooms = @ \ {j},
                   !.sockets[x.socket].wanted = @ \ {j}]

\* on(event, callback), for the callback of component c
on(x, e, c) ==
    LET y == [x EXCEPT !.listeners[e] = @ \cup {c}]
    IN IF x.socket = NoSocket
       THEN y
       ELSE [y EXCEPT !.sockets[x.socket].direct =
                          IF e = "scraping_progress" THEN @ \cup {c} ELSE @]

\* off(event, callback)
off(x, e, c) ==
    LET y == [x EXCEPT !.listeners[e] = @ \ {c}]
    IN IF x.socket = NoSocket
       THEN y
       ELSE [y EXCEPT !.sockets[x.socket].direct =
                          IF e = "scraping_progress" THEN @ \ {c} ELSE @]

\* What one step leaves behind: the state and the call it made.
Settle(x, call) == [x EXCEPT !.last = call]

\* connect() called on the service.
WsConnect ==
    /\ ~ConnectReturns(ws) => FreeSockets(ws) # {}
    /\ ws' = Settle(connect(ws), NoCall)
    /\ UNCHANGED <<mainVars, retry, limiter, pool, buffer, fanout, sched>>

\* socket.on('connect'): socket k is connected.  this.emit('ws_connected')
\* sends the event to the server; no local callback runs.
WsOnConnect(k) ==
    /\ ws.sockets[k].state = "connecting"
    /\ ws' = Settle([ws EXCEPT !.sockets[k].state = "connected",
                               !.sockets[k].tries = 0,
                               !.isConnecting = FALSE,
                               !.reconnectAttempts = 0,
                               !.reconnectDelay = initialReconnectDelay],
                    NoCall)
    /\ UNCHANGED <<mainVars, retry, limiter, pool, buffer, fanout, sched>>

\* Math.min(this.reconnectDelay * 2, 10000)
NextDelayUncapped(d) == d * 2

NextDelay(d) ==
    IF d * 2 < reconnectionDelayMax THEN d * 2 ELSE reconnectionDelayMax

\* socket.on('connect_error'): an attempt of socket k to connect failed;
\* the socket tries again unless its reconnection attempts are used up.
WsOnConnectError(k) ==
    /\ ws.sockets[k].state = "connecting"
    /\ ws.reconnectAttempts < MaxErrors
    /\ LET attempts == ws.reconnectAttempts + 1
           gaveUp == ws.sockets[k].tries >= maxReconnectAttempts
       IN ws' = Settle([ws EXCEPT
              !.sockets[k] = IF gaveUp THEN ClosedSocket
                             ELSE [@ EXCEPT !.tries = @ + 1],
              !.isConnecting = FALSE,
              !.reconnectAttempts = attempts,
              !.reconnectDelay = IF attempts >= maxReconnectAttempts THEN @
                                 ELSE NextDelay(@)],
              NoCall)
    /\ UNCHANGED <<mainVars, retry, limiter, pool, buffer, fanout, sched>>

\* socket.on('disconnect'): the connection of socket k is lost, and with it
\* its rooms on the server; the socket reconnects by itself (again) or stays
\* closed (the server closed it).  this.emit('ws_disconnected') finds the
\* socket not connected and sends nothing.
WsOnDisconnect(k, again) ==
    /\ ws.sockets[k].state = "connected"
    /\ ws' = Settle([ws EXCEPT
           !.sockets[k] = IF again
                          THEN [@ EXCEPT !.state = "connecting", !.rooms = {}]
                          ELSE ClosedSocket,
           !.isConnecting = FALSE],
           NoCall)
    /\ UNCHANGED <<mainVars, retry, limiter, pool, buffer, fanout, sched>>

\* disconnect() called on the service.
WsDisconnect ==
    /\ ws.socket # NoSocket
    /\ ws' = Settle(disconnect(ws), NoCall)
    /\ UNCHANGED <<mainVars, retry, limiter, pool, buffer, fanout, sched>>

\* joinScrapingJob(j) called on the service.
WsJoin(j) ==
    /\ ws' = Settle(joinScrapingJob(ws, j),
                    Called("join", MaySend(ws)))
    /\ UNCHANGED <<mainVars, retry, limiter, pool, buffer, fanout, sched>>

\* leaveScrapingJob(j) called on the service.
WsLeave(j) ==
    /\ ws' = Settle(leaveScrapingJob(ws, j),
                    Called("leave", MaySend(ws)))
    /\ UNCHANGED <<mainVars, retry, limiter, pool, buffer, fanout, sched>>

\* emit(event, data) called on the service with an event of the caller's.
WsEmit ==
    /\ ws' = Settle(ws, Called("emit", MaySend(ws)))
    /\ UNCHANGED <<mainVars, retry, limiter, pool, buffer, fanout, sched>>

\* on('scraping_progress', callback) called on the service by a component
\* that does not use the hook.
WsOn(c) ==
    /\ ~ws.comp[c].mounted
    /\ c \notin ws.listeners["scraping_progress"]
    /\ ws' = Settle(on(ws, "scraping_progress", c),
                    NoCall)
    /\ UNCHANGED <<mainVars, retry, limiter, pool, buffer, fanout, sched>>

\* off('scraping_progress', callback) called by such a component.
WsOff(c) ==
    /\ ~ws.comp[c].mounted
    /\ c \in ws.listeners["scraping_progress"]
    /\ ws' = Settle(off(ws, "scraping_progress", c),
                    NoCall)
    /\ UNCHANGED <<mainVars, retry, limiter, pool, buffer, fanout, sched>>

\* How often the callback of component c runs when socket k receives a
\* server event: once from notifyListeners, which the handler of
\* setupEventHandlers calls, if it is in this.listeners, and once more if
\* on() registered it on the socket itself.
Invocations(x, k, c) ==
    (IF c \in x.listeners["scraping_progress"] THEN 1 ELSE 0)
    + (IF c \in x.sockets[k].direct THEN 1 ELSE 0)

\* The server sends an event of a job to the sockets in the job's room.
WsReceive(k) ==
    /\ ws.sockets[k].state = "connected"
    /\ ws.sockets[k].rooms # {}
    /\ ws' = Settle(ws, [op |-> "receive", sent |-> FALSE,
                         calls |-> [c \in Components |-> Invocations(ws, k, c)]])
    /\ UNCHANGED <<mainVars, retry, limiter, pool, buffer, fanout, sched>>

(***************************************************************************)
(* A component with useScrapingProgress({jobId}) is mounted.  The effects  *)
(* of useWebSocket run in order: the status callbacks are registered;      *)
(* connect() is called and isConnected is set from                         *)
(* websocketService.isConnected().  If that made isConnected true, the     *)
(* next render joins the job's room and subscribes the progress handlers.  *)
(***************************************************************************)
Mount(c) ==
    /\ ~ws.comp[c].mounted
    /\ c \notin ws.listeners["scraping_progress"]
    /\ ~ConnectReturns(ws) => FreeSockets(ws) # {}
    /\ LET x1 == on(on(ws, "ws_connected", c), "ws_disconnected", c)
           x2 == connect(x1)
           up == SocketConnected(x2)
           x3 == [x2 EXCEPT !.comp[c] = [mounted |-> TRUE, isConnected |-> up]]
           x4 == IF up
                 THEN on(joinScrapingJob(x3, JobOf(c)), "scraping_progress", c)
                 ELSE x3
       IN ws' = Settle(x4, NoCall)
    /\ UNCHANGED <<mainVars, retry, limiter, pool, buffer, fanout, sched>>

(***************************************************************************)
(* The component is unmounted.  The cleanups run in the order of the       *)
(* effects: the status callbacks are removed, disconnect() is called, then *)
(* leaveScrapingJob and the off() of the progress handlers, if the         *)
(* component had joined and subscribed.                                    *)
(***************************************************************************)
Unmount(c) ==
    /\ ws.comp[c].mounted
    /\ LET x1 == off(off(ws, "ws_connected", c), "ws_disconnected", c)
           x2 == disconnect(x1)
           x3 == IF ws.comp[c].isConnected
                 THEN off(leaveScrapingJob(x2, JobOf(c)), "scraping_progress", c)
                 ELSE x2
           x4 == [x3 EXCEPT !.comp[c] = [mounted |-> FALSE, isConnected |-> FALSE]]
       IN ws' = Settle(x4, NoCall)
    /\ UNCHANGED <<mainVars, retry, limiter, pool, buffer, fanout, sched>>

WsNext ==
    \/ WsConnect
    \/ \E k \in SocketIds : WsOnConnect(k)
    \/ \E k \in SocketIds : WsOnConnectError(k)
    \/ \E k \in SocketIds, again \in BOOLEAN : WsOnDisconnect(k, again)
    \/ WsDisconnect
    \/ \E j \in WsJobs : WsJoin(j)
    \/ \E j \in WsJobs : WsLeave(j)
    \/ WsEmit
    \/ \E c \in Components : WsOn(c)
    \/ \E c \in Components : WsOff(c)
    \/ \E k \in SocketIds : WsReceive(k)

\* The service as the components with useScrapingProgress drive it.
HookNext ==
    \/ \E c \in Components : Mount(c)
    \/ \E c \in Components : Unmount(c)
    \/ \E k \in SocketIds : WsOnConnect(k)
    \/ \E k \in SocketIds : WsOnConnectError(k)
    \/ \E k \in SocketIds, again \in BOOLEAN : WsOnDisconnect(k, again)
    \/ \E k \in SocketIds : WsReceive(k)

Init ==
    /\ MainInit
    /\ RetryInit
    /\ LimiterInit
    /\ PoolInit
    /\ BufferInit
    /\ FanoutInit
    /\ SchedInit
    /\ WsInit

Spec == Init /\ [][Next]_vars

\* The retry loop alone.
SpecRetry == Init /\ [][RetryNext]_vars

\* The Domain Rate Limiter alone.
SpecLimiter == Init /\ [][LimiterNext]_vars

\* The registry and the worker pool alone.
SpecPool == Init /\ [][PoolNext]_vars

\* The observer's event buffer alone.
SpecBuffer == Init /\ [][BufferNext]_vars

\* One job's events and its clients alone.
SpecFanout == Init /\ [][FanoutNext]_vars

\* The Priority Scheduler alone.
SpecSched == Init /\ [][SchedNext]_vars

\* The client's WebSocketService alone, called directly.
SpecWs == Init /\ [][WsNext]_vars

\* The client's WebSocketService under the components that use the hooks.
SpecHooks == Init /\ [][HookNext]_vars

\* The scheduler dispatches whenever it can and running jobs come to an end.
FairSched ==
    /\ SpecSched
    /\ WF_vars(SchedDispatch)
    /\ \A i \in 1..NumSchedWorkers : WF_vars(SchedComplete(i))

TypeOK ==
    /\ website \in [Urls -> WebsiteStatus]
    /\ jobStatus \in [Jobs -> JobStatus]
    /\ revoked \subseteq Jobs
    /\ assigned \in [Workers -> Jobs \cup {NoJob}]
    /\ active_connections \subseteq Observers

(***************************************************************************)
(* Fairness of the workers: a worker process that can take a step (take a  *)
(* task, run the next statement of its task, die of a revoke) does so.     *)
(***************************************************************************)
FairSpec == Spec /\ \A w \in Workers : WF_vars(WorkerStep(w))

(***************************************************************************)
(* C1.  At most one job per dedup key (the submitted url) is in a          *)
(* non-terminal status: a submission for a url whose job is not finished   *)
(* creates no second job.                                                  *)
(***************************************************************************)
C1_OneActiveJobPerKey ==
    \A j1, j2 \in Jobs :
        ( /\ j1 # j2
          /\ jobWebsite[j1] # NoWebsite
          /\ jobWebsite[j1] = jobWebsite[j2]
          /\ jobStatus[j1] \in NonTerminal )
        => jobStatus[j2] \notin NonTerminal

(***************************************************************************)
(* C2.  The progress an observer holds for its job never decreases from    *)
(* one received event to the next, whichever events it missed while it was *)
(* not connected.                                                          *)
(***************************************************************************)
C2_ProgressMonotone ==
    [][\A o \in Observers : hook'[o].progress >= hook[o].progress]_vars

\* An observer has received the progress event of the second page of two.
C2_Witness ==
    \E o \in Observers :
        /\ hook[o].status = "processing"
        /\ hook[o].progress = 50

(***************************************************************************)
(* C3.  An observer that is connected while its job is not finished and    *)
(* stays connected eventually holds a terminal status for the job.         *)
(***************************************************************************)
HookTerminal(o) == hook[o].status \in {"completed", "failed", "cancelled"}

C3_TerminalDelivered ==
    \A o \in Observers :
        ( /\ o \in active_connections
          /\ jobStatus[hook[o].jobId] \in NonTerminal )
        ~> (HookTerminal(o) \/ o \notin active_connections)

(***************************************************************************)
(* C4.  A job cancelled before any worker took it is 'cancelled', is never *)
(* started afterwards, is assigned to no worker and is never registered    *)
(* with the ProgressManager (so no event of it is ever sent).              *)
(***************************************************************************)
CancelledUnstarted(j) == j \in revoked /\ scraper[j].pc = "new"

C4_CancelQueued ==
    /\ [](\A j \in Jobs :
            CancelledUnstarted(j) =>
                /\ jobStatus[j] = "cancelled"
                /\ \A w \in Workers : assigned[w] # j
                /\ ~active_jobs[j].present)
    /\ [][\A j \in Jobs : CancelledUnstarted(j) => scraper'[j].pc = "new"]_vars

\* A cancelled pending job has been taken off the queue without being run.
C4_Witness ==
    \E j \in Jobs :
        /\ CancelledUnstarted(j)
        /\ \A i \in 1..Len(queue) : queue[i] # j
        /\ jobStatus[j] = "cancelled"

(***************************************************************************)
(* C5, as claimed.  Cancelling a running job leaves its status unchanged   *)
(* in the cancelling step itself.                                          *)
(***************************************************************************)
CancelledNow(j) == j \notin revoked /\ j \in revoked'

Lifecycle ==
    {<<"none", "pending">>, <<"pending", "running">>,
     <<"running", "completed">>, <<"running", "failed">>,
     <<"pending", "cancelled">>, <<"running", "cancelled">>}

C10_Lifecycle ==
    [][\A j \in Jobs :
          jobStatus'[j] # jobStatus[j]
          => <<jobStatus[j], jobStatus'[j]>> \in Lifecycle]_vars

(***************************************************************************)
(* C6.  No url is fetched more often than the configured maximum, and a    *)
(* url whose attempts are used up is handed back as failed with the last   *)
(* captured error.                                                         *)
(***************************************************************************)
RetryExhausted(u) ==
    /\ retry.outcome[u] \notin {"pending", "result"}
    /\ retry.calls[u] = RetryCount

C6_RetryBoundAndError ==
    \A u \in BatchUrls :
        /\ retry.calls[u] <= RetryCount
        /\ (RetryExhausted(u) /\ retry.last_error[u] # "none")
              => retry.outcome[u] = retry.last_error[u]

C9_OneWorkerPerJob ==
    \A s1, s2 \in Slots :
        ( /\ s1 # s2
          /\ pool.workers[s1].assigned_job_id # NoJob )
        => pool.workers[s1].assigned_job_id # pool.workers[s2].assigned_job_id

\* A job that went through retry_queued is running again, on a worker that
\* was created after the pool started.
C9_Witness ==
    \E s \in Slots :
        /\ pool.workers[s].assigned_job_id # NoJob
        /\ pool.faults[pool.workers[s].assigned_job_id] = 1
        /\ pool.workers[s].id > NumSlots

(***************************************************************************)
(* C11.  An observer that joins a job which has already made progress      *)
(* holds, right after joining and before any live event, the job's current *)
(* progress, pages_scraped and status.                                     *)
(***************************************************************************)
Joins(o) == o \notin active_connections /\ o \in active_connections'

C11_JoinSnapshot ==
    [][\A o \in Observers :
          ( /\ Joins(o)
            /\ active_jobs[hook[o].jobId].present
            /\ active_jobs[hook[o].jobId].progress > 0 )
          => LET entry == active_jobs[hook[o].jobId]
             IN /\ hook'[o].progress = entry.progress
                /\ hook'[o].pagesScraped = entry.pages_scraped
                /\ hook'[o].status = entry.status]_vars

(***************************************************************************)
(* C12.  An event leaves the buffer undelivered only as the oldest         *)
(* buffered intermediate progress event, dropped to admit a new event; a   *)
(* terminal event is never dropped and is always admitted, above the       *)
(* capacity if need be.                                                    *)
(***************************************************************************)
BufferSeqs(q) == {q[i].seq : i \in 1..Len(q)}

Emits == buffer'.emitted = buffer.emitted + 1

C12_DropOldestIntermediate ==
    [][Emits =>
         LET q == buffer.queue
             lost == {i \in 1..Len(q) : q[i].seq \notin BufferSeqs(buffer'.queue)}
         IN /\ \A i \in lost :
                  /\ q[i].kind = "progress"
                  /\ \A k \in Intermediate(q) : i <= k
                  /\ buffer'.emitted \in BufferSeqs(buffer'.queue)
            /\ buffer'.done # buffer.done
                  => buffer'.emitted \in BufferSeqs(buffer'.queue)]_vars

\* A terminal event was admitted above the capacity after an intermediate
\* event had been dropped.
C12_Witness ==
    /\ Len(buffer.queue) > BufferCap
    /\ buffer.emitted > buffer.delivered + Len(buffer.queue)

(***************************************************************************)
(* C13.  All clients that receive the completion event of a job receive    *)
(* the same event, and any two events of the job that two clients both     *)
(* receive reach both in the same relative order.                          *)
(***************************************************************************)
FinalEvents(log) ==
    {log[i].data : i \in {k \in 1..Len(log) :
                            log[k].data.status \in {"completed", "failed"}}}

SameOrder(l1, l2) ==
    \A i, j \in 1..Len(l1) : \A k, l \in 1..Len(l2) :
        (i < j /\ l1[i] = l2[k] /\ l1[j] = l2[l]) => k < l

JobsDoneBy(id) ==
    Cardinality({i \in 1..Len(pool.done_by) : pool.done_by[i] = id})

C14_Recycling ==
    /\ \A i \in 1..Len(pool.done_by) :
          JobsDoneBy(pool.done_by[i]) <= max_jobs_per_worker
    /\ \A s \in Slots :
          /\ pool.workers[s].jobs_processed < max_jobs_per_worker
          /\ JobsDoneBy(pool.workers[s].id) = pool.workers[s].jobs_processed

\* A slot whose first worker did its share runs its next job under a new id.
C14_Witness ==
    \E s \in Slots :
        /\ JobsDoneBy(s) = max_jobs_per_worker
        /\ pool.workers[s].id # s
        /\ pool.workers[s].assigned_job_id # NoJob

(***************************************************************************)
(* C15, as claimed.  When an enterprise, a pro and a free job are queued   *)
(* and have waited together while every worker was busy, the free job is   *)
(* never started (and so never gets its first event) while the enterprise  *)
(* job is still waiting.                                                   *)
(***************************************************************************)
HeldIn(t) ==
    {i \in 1..Len(sched.queues[t]) : sched.queues[t][i].held}

AllTiersHeld ==
    /\ HeldIn("enterprise") # {}
    /\ HeldIn("pro") # {}
    /\ 1 \in HeldIn("free")

FreeStarted == Len(sched'.queues["free"]) < Len(sched.queues["free"])

AgingBound == TierRank["enterprise"] + NumSchedJobs

MarkedQueued(t) ==
    \E i \in 1..Len(sched.queues[t]) : sched.queues[t][i].mark

MarkedRunning ==
    \E i \in 1..Len(sched.running) : sched.running[i].mark

OnlyRetryableFailures(s) ==
    \A i \in 1..Len(s.errors) : s.errors[i].error = "transient"

C17_RetriedSuccessLeavesNoError ==
    \A j \in Jobs :
        (scraper[j].pc = "returned" /\ OnlyRetryableFailures(scraper[j]))
        => /\ scraper[j].pages_scraped = scraper[j].total
           /\ scraper[j].errors = <<>>

(***************************************************************************)
(* C18.  A page that fails permanently is counted as failed and recorded   *)
(* in errors, is not fetched again, leaves the counts and the recorded     *)
(* errors of the other pages as they were, and the loop goes on to the     *)
(* remaining pages.                                                        *)
(***************************************************************************)
FailsPermanently(j) ==
    /\ Len(scraper'[j].errors) = Len(scraper[j].errors) + 1
    /\ scraper'[j].errors[Len(scraper'[j].errors)].error = "permanent"

C18_PermanentFailureFrame ==
    [][\A j \in Jobs :
          FailsPermanently(j) =>
             LET s == scraper[j]
                 t == scraper'[j]
             IN /\ t.idx = s.idx + 1
                /\ t.errors[Len(t.errors)].url = s.idx
                /\ SubSeq(t.errors, 1, Len(s.errors)) = s.errors
                /\ t.pages_scraped = s.pages_scraped
                /\ t.pages_failed = s.pages_failed + 1
                /\ t.total = s.total
                /\ t.pc = IF s.idx + 1 < s.total THEN "page" ELSE "final"
                /\ \A k \in Jobs \ {j} : scraper'[k] = scraper[k]]_vars

\* The first page of a run failed permanently and a later page was scraped.
C18_Witness ==
    \E j \in Jobs :
        /\ Len(scraper[j].errors) >= 1
        /\ scraper[j].errors[1] = [url |-> 0, error |-> "permanent"]
        /\ scraper[j].pages_scraped >= 1

(***************************************************************************)
(* C20.  reconnectDelay starts at 1000 ms, is doubled by every failed      *)
(* connection attempt up to the cap of 10000 ms, is set back to 1000 ms by *)
(* a successful connect, and is always within 1000..10000.                 *)
(***************************************************************************)
Doubled(d) == IF 2 * d <= 10000 THEN 2 * d ELSE 10000

C20_ReconnectDelay ==
    /\ ws.reconnectDelay = 1000 \/ ws.reconnectAttempts > 0
    /\ [](1000 <= ws.reconnectDelay /\ ws.reconnectDelay <= 10000)
    /\ [][/\ ws'.reconnectAttempts = ws.reconnectAttempts + 1
             => ws'.reconnectDelay = Doubled(ws.reconnectDelay)
          /\ (\E k \in SocketIds : /\ ws.sockets[k].state # "connected"
                                   /\ ws'.sockets[k].state = "connected")
             => ws'.reconnectDelay = 1000]_vars

\* Four failed attempts in a row have taken the delay to its cap.
C20_Witness ==
    /\ ws.reconnectAttempts = 4
    /\ ws.reconnectDelay = 10000

(***************************************************************************)
(* C27.  Once an observer's hook shows completed or failed for its job, no *)
(* later event moves the status back to a non-terminal one or lowers the   *)
(* progress below its final value.                                         *)
(***************************************************************************)
HookFinal(o) == hook[o].status \in {"completed", "failed"}

C21_RejoinOnReconnect ==
    \A k \in SocketIds :
       ws.sockets[k].state = "connected"
          => ws.sockets[k].wanted \subseteq ws.sockets[k].rooms

(***************************************************************************)
(* C22.  The service is never without a socket while connect() returns at  *)
(* once: after disconnect() a connect() starts a new attempt.              *)
(***************************************************************************)
C22_ConnectAfterDisconnect ==
    ws.socket = NoSocket => ~ConnectReturns(ws)

(***************************************************************************)
(* C23.  When a server event is received, every callback registered for it *)
(* through on() has been invoked exactly once.                             *)
(***************************************************************************)
C23_InvokedOnce ==
    ws.last.op = "receive"
       => \A c \in ws.listeners["scraping_progress"] : ws.last.calls[c] = 1

(***************************************************************************)
(* C24.  While the service's socket is connected, every mounted component  *)
(* whose 'ws_connected' callback is registered has isConnected true (and   *)
(* so has issued its join): the connect handler runs the callbacks.        *)
(***************************************************************************)
C24_StatusCallbacksRun ==
    \A c \in Components :
       (SocketConnected(ws) /\ c \in ws.listeners["ws_connected"])
          => ws.comp[c].isConnected

(***************************************************************************)
(* C25.  At most one socket is live (connecting or connected) at a time.   *)
(***************************************************************************)
LiveSockets == {k \in SocketIds : ws.sockets[k].state \in {"connecting", "connected"}}

C25_OneLiveSocket == Cardinality(LiveSockets) <= 1

(***************************************************************************)
(* C26.  When one of two mounted components is unmounted, the other keeps  *)
(* its registered listeners and its joined room.                           *)
(***************************************************************************)
RoomsOf(x) == IF SocketConnected(x) THEN x.sockets[x.socket].rooms ELSE {}

C26_UnmountLeavesOthers ==
    [][\A c, d \in Components :
          (/\ c # d
           /\ ws.comp[c].mounted /\ ~ws'.comp[c].mounted
           /\ ws.comp[d].mounted)
          => /\ \A e \in WsEvents : d \in ws.listeners[e] => d \in ws'.listeners[e]
             /\ RoomsOf(ws) \subseteq RoomsOf(ws') \cup {JobOf(c)}]_vars

(***************************************************************************)
(* C30.  joinScrapingJob, leaveScrapingJob and emit called while the       *)
(* socket is absent or not connected send nothing and change nothing in    *)
(* the service: the request is dropped.                                    *)
(***************************************************************************)
C30_DroppedWhenNotConnected ==
    [][(ws'.last.op \in {"join", "leave", "emit"} /\ ~SocketConnected(ws))
          => /\ ~ws'.last.sent
             /\ [ws' EXCEPT !.last = ws.last] = ws]_vars

\* A join was dropped while a socket was there, trying to connect.
C30_Witness ==
    /\ ws.last.op = "join"
    /\ ~ws.last.sent
    /\ ws.socket # NoSocket
    /\ ws.sockets[ws.socket].state = "connecting"

====
